---- MODULE Spec2Model ----
(***************************************************************************)
(* Scoring engine of PortsmouthRaceCalc: per-race placement (Race) and     *)
(* per-series aggregation (Series), modelled from src/database.            *)
(*                                                                         *)
(* Scores are kept in tenths of a point (1.5 points is 15): every value    *)
(* that leaves round_score is a whole number of tenths.  Python's None is  *)
(* the value None below.  A raised exception is the ok |-> FALSE result    *)
(* of an operator.  Python dicts keep insertion order, so a dict keyed by  *)
(* skipper is a sequence of entries with pairwise distinct skippers; a     *)
(* dict that is only looked up by key is a function of the skipper.        *)
(***************************************************************************)
EXTENDS Integers, Sequences, FiniteSets, TLC

\* ------------------------------------------------------------- bounds ---
\* Longest list of finishes one race is given.
MaxFinishes == 4
\* Longest list of races added to a series.
MaxRaces == 4

\* ------------------------------------------------------------- inputs ---
\* Skippers are their identifiers, the integers from 1; the order of the
\* integers is the order of Skipper.identifier.
\* Elapsed times (input_time_s - offset_time_s) a Time finish may carry.
TimeValues == {60, 120}
\* Places a FIP finish may declare.
FipPlaces == {1, 3}
\* Beaufort numbers a race may be given; None is "wind not recorded".
None == 0 - 1
WindValues == {None, 2, 4}
\* required_skippers values.
RequiredValues == {1, 2}
\* qualify_count_override values.
OverrideValues == {None, 3}

\* -------------------------------------------------------------- fleet ---
\* BoatType: its code and its dpn_values [DPN0 .. DPN4] (here indexed
\* 1..5), the value() of each HandicapNumber, a missing entry being None.
BoatType(code, dpn) == [code |-> code, dpn_values |-> dpn]

dpn_values(b) == b.dpn_values

\* Two boat types of the fleet; "LS" has no value for the 4 Bft column.
\* boat_dict: the boat of each skipper (odd skippers sail "SF").
boat_dict(s) == IF s % 2 = 1 THEN BoatType("SF", <<100, 100, 100, 100, 100>>)
                ELSE BoatType("LS", <<200, 200, 200, None, 200>>)

\* Mutant of dpn_for_beaufort: each threshold is exclusive, so 1 Bft reads
\* the column of 2-3 Bft, 3 Bft that of 4 Bft and 4 Bft the last one.
dpn_for_beaufort_exclusive(b, beaufort) ==
    IF beaufort = None THEN [ok |-> FALSE, val |-> None]
    ELSE LET dpn_ind == IF beaufort < 1 THEN 1
                        ELSE IF beaufort < 3 THEN 2
                        ELSE IF beaufort < 4 THEN 3
                        ELSE 4
             dpn_val == dpn_values(b)[dpn_ind + 1]
         IN  [ok |-> TRUE,
              val |-> IF dpn_val = None THEN dpn_values(b)[1] ELSE dpn_val]

\* BoatType.dpn_for_beaufort: [ok, val]; a beaufort that is not an int
\* raises ValueError.
dpn_for_beaufort(b, beaufort) ==
    IF beaufort = None THEN [ok |-> FALSE, val |-> None]
    ELSE LET dpn_ind == IF beaufort <= 1 THEN 1
                        ELSE IF beaufort <= 3 THEN 2
                        ELSE IF beaufort <= 4 THEN 3
                        ELSE 4
             dpn_val == dpn_values(b)[dpn_ind + 1]
         IN  [ok |-> TRUE,
              val |-> IF dpn_val = None THEN dpn_values(b)[1] ELSE dpn_val]

\* --------------------------------------------------------- arithmetic ---
\* Python round() of the exact quotient num / den (den > 0, num >= 0):
\* nearest integer, a tie going to the even neighbour.
PyRound(num, den) ==
    LET q == num \div den
        r == num % den
    IN  IF 2 * r < den THEN q
        ELSE IF 2 * r > den THEN q + 1
        ELSE IF q % 2 = 0 THEN q ELSE q + 1

\* Mutant of round_score: the score is rounded to a whole number of points.
round_score_whole(num, den) == 10 * PyRound(num, den)

\* utils.round_score of the score num / den points, in tenths:
\* Decimal(round(score_in * 10)) / 10.
round_score(num, den) == PyRound(10 * num, den)

\* ----------------------------------------------------------- finishes ---
RaceFinishTime(s, t) == [skipper |-> s, kind |-> "Time", time_s |-> t, place |-> 0]
RaceFinishDNF(s)     == [skipper |-> s, kind |-> "DNF",  time_s |-> 0, place |-> 0]
RaceFinishDQ(s)      == [skipper |-> s, kind |-> "DQ",   time_s |-> 0, place |-> 0]
RaceFinishFIP(s, p)  == [skipper |-> s, kind |-> "FIP",  time_s |-> 0, place |-> p]
RaceFinishRC(s)      == [skipper |-> s, kind |-> "RC",   time_s |-> 0, place |-> 0]

\* The finishes a loader may build for skipper s.
FinishesOf(s) ==
    {RaceFinishTime(s, t) : t \in TimeValues}
    \cup {RaceFinishFIP(s, p) : p \in FipPlaces}
    \cup {RaceFinishDNF(s), RaceFinishDQ(s), RaceFinishRC(s)}

\* RaceFinish*.finished()
finished(rt) == rt.kind \in {"Time", "FIP", "RC"}

\* Mutant of correct: the elapsed time is multiplied by the handicap number
\* (value / 100) where it is to be divided by it.
correct_multiplied(time_s, value) == PyRound(time_s * value, 100)

\* round(self.time_s * 100.0 / value): the float quotient of two whole
\* numbers is a tie only when the exact quotient is, and round() sends a
\* tie to the even neighbour.
correct(time_s, value) == PyRound(time_s * 100, value)

\* RaceFinishTime.corrected_time_s of finish rt in a race with wind wind_bf
\* (the loader passes race.wind_bf to the finish): [ok, val].
corrected_time_s(rt, wind_bf) ==
    LET dpn == dpn_for_beaufort(boat_dict(rt.skipper), wind_bf)
    IN  IF dpn.ok THEN [ok |-> TRUE, val |-> correct(rt.time_s, dpn.val)]
        ELSE [ok |-> FALSE, val |-> None]

\* --------------------------------------------------------------- Race ---
\* Race.__init__ with an empty RC roster.
NewRace(name, required_skippers, wind_bf) ==
    [name |-> name, race_times |-> <<>>,
     required_skippers |-> required_skippers, wind_bf |-> wind_bf]

\* Mutant of add_skipper_finish: a second finish replaces the first.
add_skipper_finish_overwrite(r, race_finish) ==
    LET q == r.race_times
    IN  IF race_finish.skipper \in {q[i].skipper : i \in 1 .. Len(q)}
        THEN [ok |-> TRUE,
              race |-> [r EXCEPT !.race_times =
                          [i \in 1 .. Len(q) |->
                             IF q[i].skipper = race_finish.skipper
                             THEN race_finish ELSE q[i]]]]
        ELSE [ok |-> TRUE, race |-> [r EXCEPT !.race_times = Append(q, race_finish)]]

\* Race.add_skipper_finish: a second finish for a skipper raises ValueError
\* (ok is FALSE) before anything is stored; otherwise the finish is stored
\* and Race.reset() drops the memoised results, which this model never keeps
\* (race_results is computed from race_times each time).
add_skipper_finish(r, race_finish) ==
    IF race_finish.skipper \in {r.race_times[i].skipper : i \in 1 .. Len(r.race_times)}
    THEN [ok |-> FALSE, race |-> r]
    ELSE [ok |-> TRUE, race |-> [r EXCEPT !.race_times = Append(@, race_finish)]]

\* A race as a loader builds it: Race.__init__ followed by one
\* add_skipper_finish per entry of the sheet.
RECURSIVE LoadRace(_, _)
LoadRace(r, sheet) ==
    IF sheet = <<>> THEN r
    ELSE LoadRace(add_skipper_finish(r, Head(sheet)).race, Tail(sheet))

SkippersIn(r) == {r.race_times[i].skipper : i \in 1 .. Len(r.race_times)}
FinishOf(r, s) ==
    r.race_times[CHOOSE i \in 1 .. Len(r.race_times) : r.race_times[i].skipper = s]

IsRC(rt)   == rt.kind = "RC"
IsTime(rt) == rt.kind = "Time"
IsFIP(rt)  == rt.kind = "FIP"
IsDNF(rt)  == rt.kind = "DNF"

\* Race.rc_skippers / other_results / fip_results
rc_skippers(r)         == SelectSeq(r.race_times, IsRC)
NotFinished(rt)        == ~finished(rt)
other_results(r)       == SelectSeq(r.race_times, NotFinished)
fip_results(r)         == SelectSeq(r.race_times, IsFIP)

\* Mutant of finished_race_times: every finished entry that is not RC, so
\* the FIP entries are timed too.
FinishedNotRC(rt) == finished(rt) /\ ~IsRC(rt)
finished_race_times_all_finished(r) == SelectSeq(r.race_times, FinishedNotRC)

\* Race.finished_race_times
finished_race_times(r) == SelectSeq(r.race_times, IsTime)

NotRC(rt) == ~IsRC(rt)

\* Mutant of valid: the RC entries count as starters.
valid_counts_rc(r) == r.wind_bf # None /\ Len(r.race_times) >= r.required_skippers

\* Race.valid
valid(r) ==
    LET bf_condition == r.wind_bf # None
        starting_race_times == SelectSeq(r.race_times, NotRC)
        num_condition == Len(starting_race_times) >= r.required_skippers
    IN  bf_condition /\ num_condition

\* Race.valid_for_rc
valid_for_rc(r, skipper) ==
    LET valid_check == valid(r)
        rc_check == skipper \in SkippersIn(r) /\ IsRC(FinishOf(r, skipper))
    IN  valid_check \/ rc_check

\* sorted(result_times.keys()): the ascending list of a set of numbers.
RECURSIVE sorted(_)
sorted(S) ==
    IF S = {} THEN <<>>
    ELSE LET m == CHOOSE x \in S : \A y \in S : x <= y
         IN  <<m>> \o sorted(S \ {m})

\* sum(range(a, b))
RECURSIVE sum_range(_, _)
sum_range(a, b) == IF a >= b THEN 0 ELSE a + sum_range(a + 1, b)

\* Mutant of place_dict: current_place advances by one per corrected time
\* instead of by the number of boats tied on it.
RECURSIVE place_dict_step_one(_, _, _)
place_dict_step_one(keys, result_times, current_place) ==
    IF keys = <<>> THEN <<>>
    ELSE LET time_s == Head(keys)
             num_for_time == result_times[time_s]
         IN  <<[time_s |-> time_s,
                num |-> sum_range(current_place, current_place + num_for_time),
                den |-> num_for_time]>>
             \o place_dict_step_one(Tail(keys), result_times, current_place + 1)

\* The loop of race_results over sorted(result_times.keys()): the score of
\* each corrected time, as the pair <<sum of the places, number tied>>.
RECURSIVE place_dict(_, _, _)
place_dict(keys, result_times, current_place) ==
    IF keys = <<>> THEN <<>>
    ELSE LET time_s == Head(keys)
             num_for_time == result_times[time_s]
         IN  <<[time_s |-> time_s,
                num |-> sum_range(current_place, current_place + num_for_time),
                den |-> num_for_time]>>
             \o place_dict(Tail(keys), result_times, current_place + num_for_time)

\* max(result_dict.values())
MaxOf(S) == CHOOSE x \in S : \A y \in S : y <= x

\* Race.race_results: [ok, pts] with pts the result dict, a function from
\* the skippers that have an entry to their score (tenths) or None.
\* Sorting the Time finishes reads corrected_time_s, which raises when the
\* wind is not recorded.
race_results(r) ==
    LET times   == finished_race_times(r)
        Ct(rt)  == corrected_time_s(rt, r.wind_bf)
        raises  == \E i \in 1 .. Len(times) : ~Ct(times[i]).ok
        ctset   == {Ct(times[i]).val : i \in 1 .. Len(times)}
        result_times ==
            [t \in ctset |-> Cardinality({i \in 1 .. Len(times) : Ct(times[i]).val = t})]
        pd      == place_dict(sorted(ctset), result_times, 1)
        PlaceOf(t) == LET Score(e) == round_score(e.num, e.den)
                          In(p) == Score(p[CHOOSE k \in 1 .. Len(p) : p[k].time_s = t])
                      IN  In(pd)
        fips    == fip_results(r)
        placed  == {times[i].skipper : i \in 1 .. Len(times)}
                   \cup {fips[i].skipper : i \in 1 .. Len(fips)}
        \* result_dict after the Time and the FIP entries are in
        result_dict(s) == IF IsFIP(FinishOf(r, s))
                          THEN round_score(FinishOf(r, s).place, 1)
                          ELSE PlaceOf(Ct(FinishOf(r, s)).val)
        remaining_points ==
            IF placed # {} THEN MaxOf({result_dict(s) : s \in placed}) + 10 ELSE None
        others  == other_results(r)
        othered == {others[i].skipper : i \in 1 .. Len(others)}
        full(s) == IF s \in othered
                   THEN (IF IsDNF(FinishOf(r, s)) THEN remaining_points ELSE None)
                   ELSE result_dict(s)
        Rounded(v) == IF v = None THEN None ELSE round_score(v, 10)
    IN  IF raises THEN [ok |-> FALSE, pts |-> <<>>]
        ELSE [ok |-> TRUE,
              pts |-> [s \in placed \cup othered |-> Rounded(full(s))]]

\* ------------------------------------------------------------- Series ---
\* A Series is its list of races rs (Series.races) and its
\* qualify_count_override ov.

\* Ascending sort of a list of numbers (list.sort).
RECURSIVE sort_list(_)
sort_list(q) ==
    IF q = <<>> THEN <<>>
    ELSE LET k == CHOOSE i \in 1 .. Len(q) : \A j \in 1 .. Len(q) : q[i] <= q[j]
         IN  <<q[k]>> \o sort_list(SubSeq(q, 1, k - 1) \o SubSeq(q, k + 1, Len(q)))

RECURSIVE SumSeq(_)
SumSeq(q) == IF q = <<>> THEN 0 ELSE Head(q) + SumSeq(Tail(q))

\* Series.skipper_num_finished
skipper_num_finished(rs, skipper) ==
    LET Counts(r) == /\ skipper \in SkippersIn(r)
                     /\ finished(FinishOf(r, skipper))
                     /\ ~IsRC(FinishOf(r, skipper))
    IN  Len(SelectSeq(rs, Counts))

\* Series.skipper_num_rc
skipper_num_rc(rs, skipper) ==
    LET Counts(r) == skipper \in SkippersIn(r) /\ IsRC(FinishOf(r, skipper))
    IN  Len(SelectSeq(rs, Counts))

\* Series.skipper_num_dnf
skipper_num_dnf(rs, skipper) ==
    LET Counts(r) == skipper \in SkippersIn(r) /\ IsDNF(FinishOf(r, skipper))
    IN  Len(SelectSeq(rs, Counts))

\* Series.valid_races
valid_races(rs) == SelectSeq(rs, valid)

\* Mutant of CeilHalf: the division rounds down.
CeilHalf_floor(n) == n \div 2

\* int(math.ceil(n / 2))
CeilHalf(n) == IF n % 2 = 0 THEN n \div 2 ELSE n \div 2 + 1

\* Series.qualify_count
qualify_count(rs, ov) ==
    IF ov # None THEN ov ELSE CeilHalf(Len(valid_races(rs)))

\* RC may only be counted twice for qualification (the 2 of min(2, count_rc)).
Min(a, b) == IF a <= b THEN a ELSE b

\* Mutant of skipper_qualifies: every RC duty counts.
skipper_qualifies_all_rc(rs, ov, skipper) ==
    skipper_num_finished(rs, skipper) + skipper_num_rc(rs, skipper)
        + skipper_num_dnf(rs, skipper) >= qualify_count(rs, ov)

\* Series.skipper_qualifies
skipper_qualifies(rs, ov, skipper) ==
    LET count     == skipper_num_finished(rs, skipper)
        count_rc  == skipper_num_rc(rs, skipper)
        count_dnf == skipper_num_dnf(rs, skipper)
    IN  count + Min(2, count_rc) + count_dnf >= qualify_count(rs, ov)

\* Series.get_all_skippers: the skippers of all finishes of all races, in
\* the order of their first appearance.
RECURSIVE all_skipper_instances(_)
all_skipper_instances(rs) ==
    IF rs = <<>> THEN <<>>
    ELSE [i \in 1 .. Len(Head(rs).race_times) |-> Head(rs).race_times[i].skipper]
         \o all_skipper_instances(Tail(rs))

RECURSIVE Unique(_, _)
Unique(q, skippers) ==
    IF q = <<>> THEN skippers
    ELSE IF \E i \in 1 .. Len(skippers) : skippers[i] = Head(q)
         THEN Unique(Tail(q), skippers)
         ELSE Unique(Tail(q), Append(skippers, Head(q)))

get_all_skippers(rs) == Unique(all_skipper_instances(rs), <<>>)

\* The point_values list of get_skipper_rc_points before it is sorted: the
\* entry of skip in the results of every valid race that has one, None
\* entries left out.
RECURSIVE point_values(_, _)
point_values(rs, skip) ==
    IF rs = <<>> THEN <<>>
    ELSE LET r == Head(rs)
             Here(res) == IF valid(r) /\ skip \in SkippersIn(r) /\ skip \in DOMAIN res.pts
                          THEN (IF res.pts[skip] # None THEN <<res.pts[skip]>> ELSE <<>>)
                          ELSE <<>>
         IN  Here(race_results(r)) \o point_values(Tail(rs), skip)

\* Mutant of get_skipper_rc_points: the highest value is popped even when
\* it is the only one, which leaves no value to average.
get_skipper_rc_points_pop_always(rs, skipper) ==
    LET values == point_values(rs, skipper)
        kept == SubSeq(values, 1, Len(values) - 1)
    IN  IF Len(values) <= 1 THEN None
        ELSE round_score(SumSeq(kept), 10 * Len(kept))

\* Mutant of get_skipper_rc_points: the highest value is not popped.
get_skipper_rc_points_no_pop(rs, skipper) ==
    LET values == point_values(rs, skipper)
    IN  IF Len(values) = 0 THEN None
        ELSE round_score(SumSeq(values), 10 * Len(values))

\* Series.get_skipper_rc_points: the RC credit in tenths, or None; a
\* skipper with no entry in any race is not in the dict.  A valid race has
\* its wind recorded, so no race read here raises.
get_skipper_rc_points(rs, skipper) ==
    IF \A i \in 1 .. Len(rs) : skipper \notin SkippersIn(rs[i])
    THEN None
    ELSE LET Mean(kept) == round_score(SumSeq(kept), 10 * Len(kept))
             Score(sorted_values) ==
                 IF Len(sorted_values) = 0 THEN None
                 ELSE Mean(IF Len(sorted_values) > 1
                           THEN SubSeq(sorted_values, 1, Len(sorted_values) - 1)
                           ELSE sorted_values)
         IN  Score(sort_list(point_values(rs, skipper)))

\* Mutant of rc_max_count: one credit more.
rc_max_count_three == 2 + 1

\* The number of RC credits one skipper may have substituted.
rc_max_count == 2

\* The loop of skipper_points_list over the races valid for RC with skip:
\* the values appended to points_list, each with the flag from_rc telling
\* whether it is a substituted RC credit.  ok is FALSE when a race read by
\* the loop raises.
RECURSIVE points_walk(_, _, _, _)
points_walk(rs, all, skip, rc_points_added_count) ==
    IF rs = <<>> THEN [ok |-> TRUE, list |-> <<>>]
    ELSE IF ~valid_for_rc(Head(rs), skip)
    THEN points_walk(Tail(rs), all, skip, rc_points_added_count)
    ELSE LET r == Head(rs)
             results == race_results(r)
             can_add_rc == /\ skip \in SkippersIn(r)
                           /\ IsRC(FinishOf(r, skip))
                           /\ rc_points_added_count < rc_max_count
             in_results == results.ok /\ skip \in DOMAIN results.pts
             value_to_add == IF in_results THEN results.pts[skip]
                             ELSE IF can_add_rc THEN get_skipper_rc_points(all, skip)
                             ELSE None
             count == IF ~in_results /\ can_add_rc
                      THEN rc_points_added_count + 1
                      ELSE rc_points_added_count
             rest == points_walk(Tail(rs), all, skip, count)
             here == IF value_to_add # None
                     THEN <<[value |-> value_to_add, from_rc |-> ~in_results]>>
                     ELSE <<>>
         IN  IF ~results.ok THEN [ok |-> FALSE, list |-> <<>>]
             ELSE [ok |-> rest.ok, list |-> here \o rest.list]

\* The ScoreList of skip, [present, points_scored, points_excluded]; a
\* skipper left out of the points dict has present = FALSE.
NoScoreList == [present |-> FALSE, points_scored |-> <<>>, points_excluded |-> <<>>]

\* Mutant of ScoreListOf: points_list is split without being sorted.
ScoreListOf_unsorted(rs, ov, skip) ==
    IF ~skipper_qualifies(rs, ov, skip) THEN NoScoreList
    ELSE LET walk == points_walk(rs, rs, skip, 0).list
             points_list == [i \in 1 .. Len(walk) |-> walk[i].value]
             n == Min(qualify_count(rs, ov), Len(points_list))
         IN  IF Len(points_list) > 0
             THEN [present |-> TRUE,
                   points_scored |-> SubSeq(points_list, 1, n),
                   points_excluded |-> SubSeq(points_list, n + 1, Len(points_list))]
             ELSE NoScoreList

ScoreListOf(rs, ov, skip) ==
    IF ~skipper_qualifies(rs, ov, skip) THEN NoScoreList
    ELSE LET walk == points_walk(rs, rs, skip, 0).list
             points_list == sort_list([i \in 1 .. Len(walk) |-> walk[i].value])
             n == Min(qualify_count(rs, ov), Len(points_list))
         IN  IF Len(points_list) > 0
             THEN [present |-> TRUE,
                   points_scored |-> SubSeq(points_list, 1, n),
                   points_excluded |-> SubSeq(points_list, n + 1, Len(points_list))]
             ELSE NoScoreList

\* Series.skipper_points_list: [ok, val].  The points of every skipper are
\* computed on the first call, so the call raises when the loop of any
\* qualifying skipper reads a race that raises.
skipper_points_list(rs, ov, skipper) ==
    LET all == get_all_skippers(rs)
        raises == \E i \in 1 .. Len(all) :
                     /\ skipper_qualifies(rs, ov, all[i])
                     /\ ~points_walk(rs, rs, all[i], 0).ok
    IN  IF raises THEN [ok |-> FALSE, val |-> NoScoreList]
        ELSE IF \E i \in 1 .. Len(all) : all[i] = skipper
        THEN [ok |-> TRUE, val |-> ScoreListOf(rs, ov, skipper)]
        ELSE [ok |-> TRUE, val |-> NoScoreList]

\* ScoreList.score
score(sl) == round_score(SumSeq(sl.points_scored), 10)

\* Mutant of latest_race_compare: the races are scanned from the earliest.
latest_race_compare_earliest(rs, i, a, b) ==
    LET Both(k) == /\ a \in DOMAIN race_results(rs[k]).pts
                   /\ b \in DOMAIN race_results(rs[k]).pts
                   /\ race_results(rs[k]).pts[a] # race_results(rs[k]).pts[b]
        deciding == {k \in 1 .. i : Both(k)}
    IN  IF deciding = {} THEN [ok |-> TRUE, decided |-> FALSE, lt |-> FALSE]
        ELSE LET k == CHOOSE m \in deciding : \A n \in deciding : m <= n
                 res == race_results(rs[k])
             IN  IF res.pts[a] = None \/ res.pts[b] = None
                 THEN [ok |-> FALSE, decided |-> FALSE, lt |-> FALSE]
                 ELSE [ok |-> TRUE, decided |-> TRUE, lt |-> res.pts[a] < res.pts[b]]

\* The loop of compare_results over reversed(self.races), from race i down:
\* [ok, decided, lt].  The results of each race met are read, so a race
\* that raises makes the comparison raise; a_res < b_res with one of them
\* None (a DQ) raises TypeError.
RECURSIVE latest_race_compare(_, _, _, _)
latest_race_compare(rs, i, a, b) ==
    LET At(res) ==
            IF ~res.ok THEN [ok |-> FALSE, decided |-> FALSE, lt |-> FALSE]
            ELSE IF a \in DOMAIN res.pts /\ b \in DOMAIN res.pts
                    /\ res.pts[a] # res.pts[b]
            THEN IF res.pts[a] = None \/ res.pts[b] = None
                 THEN [ok |-> FALSE, decided |-> FALSE, lt |-> FALSE]
                 ELSE [ok |-> TRUE, decided |-> TRUE, lt |-> res.pts[a] < res.pts[b]]
            ELSE latest_race_compare(rs, i - 1, a, b)
    IN  IF i = 0 THEN [ok |-> TRUE, decided |-> FALSE, lt |-> FALSE]
        ELSE At(race_results(rs[i]))

\* Mutant of zip_compare: the last differing pair decides.
zip_compare_last(ap, bp) ==
    LET differ == {i \in 1 .. Min(Len(ap), Len(bp)) : ap[i] # bp[i]}
    IN  IF differ = {} THEN [decided |-> FALSE, lt |-> FALSE]
        ELSE LET i == CHOOSE k \in differ : \A m \in differ : k >= m
             IN  [decided |-> TRUE, lt |-> ap[i] < bp[i]]

\* The loop of compare_results over zip(a.points_scored, b.points_scored):
\* the first pair that differs decides, [decided, lt].
zip_compare(ap, bp) ==
    LET differ == {i \in 1 .. Min(Len(ap), Len(bp)) : ap[i] # bp[i]}
    IN  IF differ = {} THEN [decided |-> FALSE, lt |-> FALSE]
        ELSE LET i == CHOOSE k \in differ : \A m \in differ : k <= m
             IN  [decided |-> TRUE, lt |-> ap[i] < bp[i]]

\* Mutant of rc_compare: a skipper without RC credit sorts first.
rc_compare_none_first(a_rc, b_rc) ==
    IF a_rc # None /\ b_rc # None
    THEN [decided |-> a_rc # b_rc, lt |-> a_rc < b_rc]
    ELSE IF a_rc # None /\ b_rc = None THEN [decided |-> TRUE, lt |-> FALSE]
    ELSE IF a_rc = None /\ b_rc # None THEN [decided |-> TRUE, lt |-> TRUE]
    ELSE [decided |-> FALSE, lt |-> FALSE]

\* The comparison of the RC credits of two skippers without a points list
\* in compare_results, [decided, lt]; undecided falls through to the
\* identifiers.
rc_compare(a_rc, b_rc) ==
    IF a_rc # None /\ b_rc # None
    THEN [decided |-> a_rc # b_rc, lt |-> a_rc < b_rc]
    ELSE IF a_rc # None /\ b_rc = None THEN [decided |-> TRUE, lt |-> TRUE]
    ELSE IF a_rc = None /\ b_rc # None THEN [decided |-> TRUE, lt |-> FALSE]
    ELSE [decided |-> FALSE, lt |-> FALSE]

\* ------------------------------------------------- memoised queries ---
\* The memoisation fields of a Series (__skippers, __skipper_rc_pts,
\* __points, __ranks) as one record m; each field is [set, val], set being
\* FALSE while the Python field is None.  The dicts __skipper_rc_pts and
\* __points are only looked up by key, so they are functions of the
\* skipper; __ranks is the sequence of its entries.  A call_ operator is one
\* call of the method on a series with fields m and races rs: it returns
\* the fields as the call leaves them next to its value, and ok is FALSE
\* when the call raises.
NoMemo == [set |-> FALSE, val |-> <<>>]

MemoOf(v) == [set |-> TRUE, val |-> v]

\* The fields as Series.__init__ and Series.reset leave them.
FreshMemo ==
    [skippers |-> NoMemo, skipper_rc_pts |-> NoMemo, points |-> NoMemo, ranks |-> NoMemo]

\* dict.get(k, default)
DictGet(d, k, default) == IF k \in DOMAIN d THEN d[k] ELSE default

\* Series.get_all_skippers
call_get_all_skippers(m, rs) ==
    LET Filled(skippers_list) ==
            [m |-> [m EXCEPT !.skippers = MemoOf(skippers_list)], val |-> skippers_list]
    IN  IF m.skippers.set THEN [m |-> m, val |-> m.skippers.val]
        ELSE Filled(get_all_skippers(rs))

\* Series.get_skipper_rc_points: the dict is filled for the skippers that
\* get_all_skippers returns, each from the valid races as they are now.
call_get_skipper_rc_points(m, rs, skipper) ==
    LET Filled(all, d) ==
            [m |-> [all.m EXCEPT !.skipper_rc_pts = MemoOf(d)],
             val |-> DictGet(d, skipper, None)]
        Fill(all) ==
            Filled(all, [skip \in {all.val[i] : i \in 1 .. Len(all.val)} |->
                            get_skipper_rc_points(rs, skip)])
    IN  IF m.skipper_rc_pts.set
        THEN [m |-> m, val |-> DictGet(m.skipper_rc_pts.val, skipper, None)]
        ELSE Fill(call_get_all_skippers(m, rs))

\* The loop of skipper_points_list over the races valid for RC with skip,
\* rs being the races still to visit and all the races of the series:
\* [ok, m, list], list being the values appended to points_list.
RECURSIVE call_points_walk(_, _, _, _, _)
call_points_walk(m, rs, all, skip, rc_points_added_count) ==
    LET Visit(r, results, rc) ==
            LET can_add_rc == /\ skip \in SkippersIn(r)
                              /\ IsRC(FinishOf(r, skip))
                              /\ rc_points_added_count < rc_max_count
                in_results == results.ok /\ skip \in DOMAIN results.pts
                reads_rc == ~in_results /\ can_add_rc
                value_to_add == IF in_results THEN results.pts[skip]
                                ELSE IF can_add_rc THEN rc.val
                                ELSE None
                count == IF reads_rc
                         THEN rc_points_added_count + 1
                         ELSE rc_points_added_count
                here == IF value_to_add # None THEN <<value_to_add>> ELSE <<>>
                Join(rest) == [ok |-> rest.ok, m |-> rest.m, list |-> here \o rest.list]
            IN  IF ~results.ok THEN [ok |-> FALSE, m |-> m, list |-> <<>>]
                ELSE Join(call_points_walk(IF reads_rc THEN rc.m ELSE m,
                                           Tail(rs), all, skip, count))
    IN  IF rs = <<>> THEN [ok |-> TRUE, m |-> m, list |-> <<>>]
        ELSE IF ~valid_for_rc(Head(rs), skip)
        THEN call_points_walk(m, Tail(rs), all, skip, rc_points_added_count)
        ELSE Visit(Head(rs), race_results(Head(rs)),
                   call_get_skipper_rc_points(m, all, skip))

\* The loop of skipper_points_list over the skippers all[i], all[i + 1],
\* ...: [ok, m, entries], entries being the items [skipper, result] put in
\* the local dict points.
RECURSIVE call_points_loop(_, _, _, _, _)
call_points_loop(m, rs, ov, all, i) ==
    LET Split(walk, points_list, n) ==
            LET here == IF Len(points_list) > 0
                        THEN <<[skipper |-> all[i],
                                result |-> [present |-> TRUE,
                                            points_scored |-> SubSeq(points_list, 1, n),
                                            points_excluded |->
                                                SubSeq(points_list, n + 1, Len(points_list))]]>>
                        ELSE <<>>
                Join(rest) == [ok |-> rest.ok, m |-> rest.m, entries |-> here \o rest.entries]
            IN  IF ~walk.ok THEN [ok |-> FALSE, m |-> walk.m, entries |-> <<>>]
                ELSE Join(call_points_loop(walk.m, rs, ov, all, i + 1))
        Sorted(walk, points_list, qualify) ==
            Split(walk, points_list, Min(qualify, Len(points_list)))
        Walked(walk) == Sorted(walk, sort_list(walk.list), qualify_count(rs, ov))
    IN  IF i > Len(all) THEN [ok |-> TRUE, m |-> m, entries |-> <<>>]
        ELSE IF ~skipper_qualifies(rs, ov, all[i])
        THEN call_points_loop(m, rs, ov, all, i + 1)
        ELSE Walked(call_points_walk(m, rs, rs, all[i], 0))

\* Series.skipper_points_list: __points is assigned after the loop over all
\* skippers, so a call that raises leaves it None.
call_skipper_points_list(m, rs, ov, skipper) ==
    LET Filled(loop, d) ==
            [ok |-> TRUE, m |-> [loop.m EXCEPT !.points = MemoOf(d)],
             val |-> DictGet(d, skipper, NoScoreList)]
        Looped(loop, e) ==
            IF ~loop.ok THEN [ok |-> FALSE, m |-> loop.m, val |-> NoScoreList]
            ELSE Filled(loop, [skip \in {e[i].skipper : i \in 1 .. Len(e)} |->
                                  e[CHOOSE i \in 1 .. Len(e) : e[i].skipper = skip].result])
        Entries(loop) == Looped(loop, loop.entries)
        Loop(all) == Entries(call_points_loop(all.m, rs, ov, all.val, 1))
    IN  IF m.points.set
        THEN [ok |-> TRUE, m |-> m, val |-> DictGet(m.points.val, skipper, NoScoreList)]
        ELSE Loop(call_get_all_skippers(m, rs))

\* Mutant of compare_results: two skippers with a points list that no rule
\* separates fall through to the reverse order of their identifiers.
compare_results_reversed(m, rs, a, b) ==
    LET Scored(a_score, b_score, first, latest) ==
            IF a_score = b_score
            THEN IF first.decided THEN [ok |-> TRUE, m |-> m, lt |-> first.lt]
                 ELSE IF ~latest.ok THEN [ok |-> FALSE, m |-> m, lt |-> FALSE]
                 ELSE IF latest.decided THEN [ok |-> TRUE, m |-> m, lt |-> latest.lt]
                 ELSE [ok |-> TRUE, m |-> m, lt |-> a.skipper > b.skipper]
            ELSE [ok |-> TRUE, m |-> m, lt |-> a_score < b_score]
        Unscored(b_rc, by_rc) ==
            IF by_rc.decided THEN [ok |-> TRUE, m |-> b_rc.m, lt |-> by_rc.lt]
            ELSE [ok |-> TRUE, m |-> b_rc.m, lt |-> a.skipper < b.skipper]
        Second(a_rc, b_rc) == Unscored(b_rc, rc_compare(a_rc.val, b_rc.val))
        First(a_rc) == Second(a_rc, call_get_skipper_rc_points(a_rc.m, rs, b.skipper))
    IN  IF a.result.present /\ b.result.present
        THEN Scored(score(a.result), score(b.result),
                    zip_compare(a.result.points_scored, b.result.points_scored),
                    latest_race_compare(rs, Len(rs), a.skipper, b.skipper))
        ELSE IF ~a.result.present /\ ~b.result.present
        THEN First(call_get_skipper_rc_points(m, rs, a.skipper))
        ELSE [ok |-> TRUE, m |-> m, lt |-> a.result.present]

\* compare_results of get_all_skippers_sorted, a and b being SkipperMaps
\* [skipper, result]: [ok, m, lt], lt telling whether a sorts before b.
compare_results(m, rs, a, b) ==
    LET Scored(a_score, b_score, first, latest) ==
            IF a_score = b_score
            THEN IF first.decided THEN [ok |-> TRUE, m |-> m, lt |-> first.lt]
                 ELSE IF ~latest.ok THEN [ok |-> FALSE, m |-> m, lt |-> FALSE]
                 ELSE IF latest.decided THEN [ok |-> TRUE, m |-> m, lt |-> latest.lt]
                 ELSE [ok |-> TRUE, m |-> m, lt |-> a.skipper < b.skipper]
            ELSE [ok |-> TRUE, m |-> m, lt |-> a_score < b_score]
        Unscored(b_rc, by_rc) ==
            IF by_rc.decided THEN [ok |-> TRUE, m |-> b_rc.m, lt |-> by_rc.lt]
            ELSE [ok |-> TRUE, m |-> b_rc.m, lt |-> a.skipper < b.skipper]
        Second(a_rc, b_rc) == Unscored(b_rc, rc_compare(a_rc.val, b_rc.val))
        First(a_rc) == Second(a_rc, call_get_skipper_rc_points(a_rc.m, rs, b.skipper))
    IN  IF a.result.present /\ b.result.present
        THEN Scored(score(a.result), score(b.result),
                    zip_compare(a.result.points_scored, b.result.points_scored),
                    latest_race_compare(rs, Len(rs), a.skipper, b.skipper))
        ELSE IF ~a.result.present /\ ~b.result.present
        THEN First(call_get_skipper_rc_points(m, rs, a.skipper))
        ELSE [ok |-> TRUE, m |-> m, lt |-> a.result.present]

\* The inner while loop of the insertion sort: s goes before the first
\* entry, from position i on, that it compares lower than, else last.
RECURSIVE insert_sorted(_, _, _, _, _)
insert_sorted(m, rs, sorted_maps, s, i) ==
    LET Compared(c) ==
            IF ~c.ok THEN [ok |-> FALSE, m |-> c.m, list |-> <<>>]
            ELSE IF c.lt
            THEN [ok |-> TRUE, m |-> c.m,
                  list |-> SubSeq(sorted_maps, 1, i - 1) \o <<s>>
                           \o SubSeq(sorted_maps, i, Len(sorted_maps))]
            ELSE insert_sorted(c.m, rs, sorted_maps, s, i + 1)
    IN  IF i > Len(sorted_maps)
        THEN [ok |-> TRUE, m |-> m, list |-> Append(sorted_maps, s)]
        ELSE Compared(compare_results(m, rs, s, sorted_maps[i]))

\* The outer loop of the insertion sort: score_mapping is emptied from its
\* end by pop().
RECURSIVE insertion_sort(_, _, _, _)
insertion_sort(m, rs, score_mapping, sorted_maps) ==
    LET Inserted(ins, rest) ==
            IF ~ins.ok THEN [ok |-> FALSE, m |-> ins.m, list |-> <<>>]
            ELSE insertion_sort(ins.m, rs, rest, ins.list)
    IN  IF score_mapping = <<>> THEN [ok |-> TRUE, m |-> m, list |-> sorted_maps]
        ELSE Inserted(insert_sorted(m, rs, sorted_maps,
                                    score_mapping[Len(score_mapping)], 1),
                      SubSeq(score_mapping, 1, Len(score_mapping) - 1))

\* Series.get_all_skippers_sorted: [ok, m, list of skippers].  The first
\* call of skipper_points_list fills __points or raises; the later calls
\* read it.
call_get_all_skippers_sorted(m, rs, ov) ==
    LET Sorted(sorted_maps) ==
            IF ~sorted_maps.ok THEN [ok |-> FALSE, m |-> sorted_maps.m, list |-> <<>>]
            ELSE [ok |-> TRUE, m |-> sorted_maps.m,
                  list |-> [i \in 1 .. Len(sorted_maps.list) |->
                              sorted_maps.list[i].skipper]]
        Mapped(all, first) ==
            IF ~first.ok THEN [ok |-> FALSE, m |-> first.m, list |-> <<>>]
            ELSE Sorted(insertion_sort(first.m, rs,
                          [i \in 1 .. Len(all.val) |->
                              [skipper |-> all.val[i],
                               result |-> DictGet(first.m.points.val, all.val[i],
                                                  NoScoreList)]] \o <<>>,
                          <<>>))
        Listed(all) ==
            IF all.val = <<>> THEN [ok |-> TRUE, m |-> all.m, list |-> <<>>]
            ELSE Mapped(all, call_skipper_points_list(all.m, rs, ov, all.val[1]))
    IN  Listed(call_get_all_skippers(m, rs))

\* get_all_skippers_sorted of a series with nothing memoised: [ok, list].
get_all_skippers_sorted(rs, ov) ==
    LET Result(c) == [ok |-> c.ok, list |-> c.list]
    IN  Result(call_get_all_skippers_sorted(FreshMemo, rs, ov))

\* The first loop of __inner_get_skipper_rank over the sorted skippers from
\* position i (0-based, as enumerate counts), pts_dict being __points: the
\* SkipperRank of every skipper with a points list, [skipper, rank,
\* rank_tie_broken], in order.
NoRank == [present |-> FALSE, rank |-> None, rank_tie_broken |-> None]

\* Mutant of rank_walk: a new total takes the rank after the last one
\* given, not its position.
RECURSIVE rank_walk_dense(_, _, _, _, _)
rank_walk_dense(pts_dict, sorted_skippers, i, last_rank, last_score) ==
    IF i >= Len(sorted_skippers) THEN <<>>
    ELSE LET skip_point == sorted_skippers[i + 1]
             pts == DictGet(pts_dict, skip_point, NoScoreList)
             current_rank == i + 1
             r == IF score(pts) # last_score
                  THEN (IF last_rank = None THEN 1 ELSE last_rank + 1)
                  ELSE last_rank
         IN  IF pts.present
             THEN <<[skipper |-> skip_point, rank |-> r, rank_tie_broken |-> current_rank]>>
                  \o rank_walk_dense(pts_dict, sorted_skippers, i + 1, r, score(pts))
             ELSE rank_walk_dense(pts_dict, sorted_skippers, i + 1, last_rank, last_score)

RECURSIVE rank_walk(_, _, _, _, _)
rank_walk(pts_dict, sorted_skippers, i, last_rank, last_score) ==
    IF i >= Len(sorted_skippers) THEN <<>>
    ELSE LET skip_point == sorted_skippers[i + 1]
             pts == DictGet(pts_dict, skip_point, NoScoreList)
             current_rank == i + 1
             r == IF score(pts) # last_score THEN current_rank ELSE last_rank
         IN  IF pts.present
             THEN <<[skipper |-> skip_point, rank |-> r, rank_tie_broken |-> current_rank]>>
                  \o rank_walk(pts_dict, sorted_skippers, i + 1, r, score(pts))
             ELSE rank_walk(pts_dict, sorted_skippers, i + 1, last_rank, last_score)

\* self.__ranks.get(skipper, None)
rank_of(ranks, skipper) ==
    LET mine == {k \in 1 .. Len(ranks) : ranks[k].skipper = skipper}
    IN  IF mine = {} THEN NoRank
        ELSE LET e == ranks[CHOOSE k \in mine : TRUE]
             IN  [present |-> TRUE, rank |-> e.rank,
                  rank_tie_broken |-> e.rank_tie_broken]

\* Series.__inner_get_skipper_rank: [ok, m, val].  __ranks is set to an
\* empty dict before get_all_skippers_sorted is called, so a call that
\* raises leaves it empty, not None.  The second loop clears
\* rank_tie_broken of every rank held by one skipper.
call_inner_get_skipper_rank(m, rs, ov, skipper) ==
    LET Cleared(sorted_skippers, cleared) ==
            [ok |-> TRUE,
             m |-> [sorted_skippers.m EXCEPT !.ranks = MemoOf(cleared)],
             val |-> rank_of(cleared, skipper)]
        Ranked(sorted_skippers, ranks) ==
            LET cnt(val) == Cardinality({k \in 1 .. Len(ranks) : ranks[k].rank = val})
            IN  Cleared(sorted_skippers,
                        [k \in 1 .. Len(ranks) |->
                           [ranks[k] EXCEPT !.rank_tie_broken =
                               IF cnt(ranks[k].rank) <= 1 THEN None ELSE @]] \o <<>>)
        Sorted(sorted_skippers) ==
            IF ~sorted_skippers.ok
            THEN [ok |-> FALSE, m |-> sorted_skippers.m, val |-> NoRank]
            ELSE Ranked(sorted_skippers,
                        rank_walk(sorted_skippers.m.points.val, sorted_skippers.list,
                                  0, None, None))
    IN  IF m.ranks.set
        THEN [ok |-> TRUE, m |-> m, val |-> rank_of(m.ranks.val, skipper)]
        ELSE Sorted(call_get_all_skippers_sorted([m EXCEPT !.ranks = MemoOf(<<>>)], rs, ov))

\* Series.get_skipper_rank
call_get_skipper_rank(m, rs, ov, skipper) == call_inner_get_skipper_rank(m, rs, ov, skipper)

\* The dict __ranks of a series with nothing memoised: [ok, ranks].
ranks_dict(rs, ov) ==
    LET Result(c) == [ok |-> c.ok, ranks |-> c.m.ranks.val]
    IN  Result(call_inner_get_skipper_rank(FreshMemo, rs, ov, 0))

\* __inner_get_skipper_rank of a series with nothing memoised: [ok, val].
inner_get_skipper_rank(rs, ov, skipper) ==
    LET Result(c) == [ok |-> c.ok, val |-> c.val]
    IN  Result(call_inner_get_skipper_rank(FreshMemo, rs, ov, skipper))

\* get_skipper_rank of a series with nothing memoised.
get_skipper_rank(rs, ov, skipper) == inner_get_skipper_rank(rs, ov, skipper)

\* ---------------------------------------------------- HandicapNumber ---
\* A string is the sequence of its characters.  float() is modelled on the
\* strings made of digits and "." only: such a string is a number when it
\* has at least one digit and at most one "."; any other character of the
\* alphabet below (a bracket left inside the value) makes float() raise.
\* A parsed value is kept exactly, as the whole number num of its digits
\* and the count dec of those after the point (num / 10^dec).
Digits == <<"0", "1", "2", "3", "4", "5", "6", "7", "8", "9">>
IsDigit(c) == \E d \in 1 .. 10 : Digits[d] = c
DigitOf(c) == (CHOOSE d \in 1 .. 10 : Digits[d] = c) - 1

RECURSIVE Pow10(_)
Pow10(n) == IF n = 0 THEN 1 ELSE 10 * Pow10(n - 1)

\* The whole number written by the digits of str, "." skipped.
RECURSIVE DigitsValue(_, _)
DigitsValue(str, acc) ==
    IF str = <<>> THEN acc
    ELSE IF Head(str) = "." THEN DigitsValue(Tail(str), acc)
    ELSE DigitsValue(Tail(str), 10 * acc + DigitOf(Head(str)))

\* float(value): [ok, num, dec].
float(value) ==
    LET points == {i \in 1 .. Len(value) : value[i] = "."}
        digits == {i \in 1 .. Len(value) : IsDigit(value[i])}
    IN  IF /\ points \cup digits = 1 .. Len(value)
           /\ digits # {}
           /\ Cardinality(points) <= 1
        THEN [ok |-> TRUE,
              num |-> DigitsValue(value, 0),
              dec |-> IF points = {} THEN 0
                      ELSE Len(value) - (CHOOSE i \in points : TRUE)]
        ELSE [ok |-> FALSE, num |-> 0, dec |-> 0]

\* HandicapNumber.__init__
HandicapNumber(value, handicap_type) == [value |-> value, handicap_type |-> handicap_type]

\* Mutant of from_string: a value in square brackets is taken as SUSPECT.
from_string_one_pedigree(value) ==
    LET Parsed(f, handicap_type) ==
            IF f.ok
            THEN [ok |-> TRUE,
                  val |-> HandicapNumber([num |-> f.num, dec |-> f.dec], handicap_type)]
            ELSE [ok |-> FALSE, val |-> None]
        Inner == SubSeq(value, 2, Len(value) - 1)
    IN  IF Len(value) = 0 THEN [ok |-> FALSE, val |-> None]
        ELSE IF value[1] = "("
        THEN IF value[Len(value)] # ")" THEN [ok |-> FALSE, val |-> None]
             ELSE Parsed(float(Inner), "SUSPECT")
        ELSE IF value[1] = "["
        THEN IF value[Len(value)] # "]" THEN [ok |-> FALSE, val |-> None]
             ELSE Parsed(float(Inner), "SUSPECT")
        ELSE Parsed(float(value), "STANDARD")

\* HandicapNumber.from_string: [ok, val]; ok is FALSE when ValueError is
\* raised (an empty string, an opening bracket without its closing one, a
\* value float() does not take).
from_string(value) ==
    LET Parsed(f, handicap_type) ==
            IF f.ok
            THEN [ok |-> TRUE,
                  val |-> HandicapNumber([num |-> f.num, dec |-> f.dec], handicap_type)]
            ELSE [ok |-> FALSE, val |-> None]
        Inner == SubSeq(value, 2, Len(value) - 1)
    IN  IF Len(value) = 0 THEN [ok |-> FALSE, val |-> None]
        ELSE IF value[1] = "("
        THEN IF value[Len(value)] # ")" THEN [ok |-> FALSE, val |-> None]
             ELSE Parsed(float(Inner), "SUSPECT")
        ELSE IF value[1] = "["
        THEN IF value[Len(value)] # "]" THEN [ok |-> FALSE, val |-> None]
             ELSE Parsed(float(Inner), "HIGHLY_SUSPECT")
        ELSE Parsed(float(value), "STANDARD")

\* The decimal digits of a whole number.
RECURSIVE IntStr(_)
IntStr(n) ==
    IF n < 10 THEN <<Digits[n + 1]>>
    ELSE IntStr(n \div 10) \o <<Digits[(n % 10) + 1]>>

\* f'{value:0.03f}': the value to the nearest thousandth, written with its
\* whole part, "." and three decimals.  The format rounds the float that
\* stands for the value; no numeral of the digits 0, 1 and 9 offered below
\* is half a thousandth away from a thousandth, where the float would
\* decide.
format_03f(value) ==
    LET Written(thousandths) ==
            IntStr(thousandths \div 1000)
            \o <<".">>
            \o <<Digits[((thousandths \div 100) % 10) + 1],
                 Digits[((thousandths \div 10) % 10) + 1],
                 Digits[(thousandths % 10) + 1]>>
    IN  Written(PyRound(value.num * 1000, Pow10(value.dec)))

\* HandicapNumber._surround_with_correct_brackets
surround_with_correct_brackets(handicap_type, val) ==
    IF handicap_type = "STANDARD" THEN val
    ELSE IF handicap_type = "SUSPECT" THEN <<"(">> \o val \o <<")">>
    ELSE <<"[">> \o val \o <<"]">>

\* HandicapNumber.__str__
str(h) == surround_with_correct_brackets(h.handicap_type, format_03f(h.value))

\* ----------------------------------------------------------- WindMap ---
\* WindMap.Node.__init__: [ok, node]; start_bf > end_bf raises ValueError.
Node(start_bf, end_bf, index) ==
    [ok |-> start_bf <= end_bf,
     node |-> [start_bf |-> start_bf, end_bf |-> end_bf, index |-> index]]

\* self.wind_maps.sort(key=lambda x: x.start_bf) after the append of node n
\* to a sorted list: the sort is stable, so n goes behind every node that
\* does not start later.
sort_appended(wind_maps, n) ==
    LET before == {i \in 1 .. Len(wind_maps) : wind_maps[i].start_bf <= n.start_bf}
        k == Cardinality(before)
    IN  SubSeq(wind_maps, 1, k) \o <<n>> \o SubSeq(wind_maps, k + 1, Len(wind_maps))

\* WindMap.add_wind_parameters: [ok, wind_maps].  ValueError is raised, and
\* the list left as it is, when start_wind or end_wind lies in the range of
\* a node of the list, or when the new Node cannot be built.
add_wind_parameters(wind_maps, start_wind, end_wind, index) ==
    LET within == \E i \in 1 .. Len(wind_maps) :
                     \E v \in {start_wind, end_wind} :
                        wind_maps[i].start_bf <= v /\ v <= wind_maps[i].end_bf
        Built(n) == IF ~n.ok THEN [ok |-> FALSE, wind_maps |-> wind_maps]
                    ELSE [ok |-> TRUE, wind_maps |-> sort_appended(wind_maps, n.node)]
    IN  IF within THEN [ok |-> FALSE, wind_maps |-> wind_maps]
        ELSE Built(Node(start_wind, end_wind, index))

\* WindMap.default for the default_index the loader gives.
default_index == 0
default == Node(0, 0, default_index).node

\* WindMap.get_wind_map_for_beaufort: the first node whose range holds
\* bf_num, else the default node.
get_wind_map_for_beaufort(wind_maps, bf_num) ==
    LET matching == {i \in 1 .. Len(wind_maps) :
                        wind_maps[i].start_bf <= bf_num /\ bf_num <= wind_maps[i].end_bf}
    IN  IF matching = {} THEN default
        ELSE wind_maps[CHOOSE i \in matching : \A j \in matching : i <= j]

\* ------------------------------------------------ RaceFinishTime (memo) ---
\* A RaceFinishTime with the fields the loader gives it and its memoised
\* _corrected_time_s, None until the property is first read.
NewRaceFinishTime(boat, wind_bf, input_time_s, offset_time_s) ==
    [boat |-> boat, wind_bf |-> wind_bf,
     input_time_s |-> input_time_s, offset_time_s |-> offset_time_s,
     corrected_time_s |-> None]

\* RaceFinishTime.time_s
time_s(f) == f.input_time_s - f.offset_time_s

\* RaceFinishTime.corrected_time_s read on finish f: [ok, finish, val].  A
\* wind that is not an int makes dpn_for_beaufort raise, and the memoised
\* value stays None.
call_corrected_time_s(f) ==
    LET Set(v) == [ok |-> TRUE, finish |-> [f EXCEPT !.corrected_time_s = v], val |-> v]
        Got(dpn) == IF ~dpn.ok THEN [ok |-> FALSE, finish |-> f, val |-> None]
                    ELSE Set(correct(time_s(f), dpn.val))
    IN  IF f.corrected_time_s # None
        THEN [ok |-> TRUE, finish |-> f, val |-> f.corrected_time_s]
        ELSE Got(dpn_for_beaufort(f.boat, f.wind_bf))

\* RaceFinishTime.reset
reset_finish(f) == [f EXCEPT !.corrected_time_s = None]

\* -------------------------------------------------------------- state ---
VARIABLES
    race,                     \* the Race a loader is filling (SpecRace)
    races,                    \* Series.races
    race_order,               \* Series.race_order: race name -> index
    qualify_count_override,   \* Series._qualify_count_override
    valid_required_skippers,  \* Series.valid_required_skippers
    memo,                     \* the memoisation fields of the Series
    finish,                   \* the RaceFinishTime being read (SpecTime)
    wind_maps,                \* WindMap.wind_maps (SpecWind)
    dpn_string,               \* the handicap string of a table cell (SpecHandicap)
    handicap                  \* what from_string made of it

vars == <<race, races, race_order, qualify_count_override, valid_required_skippers, memo,
          finish, wind_maps, dpn_string, handicap>>

\* The variables of the series and of the fleet.
series_vars == <<race, races, race_order, qualify_count_override, valid_required_skippers, memo>>
fleet_vars == <<finish, wind_maps, dpn_string, handicap>>

\* handicap while from_string has not been called; afterwards [called, ok,
\* val], ok telling whether the call returned.
NotParsed == [called |-> FALSE, ok |-> FALSE, val |-> None]

\* The fleet before anything is loaded into it.
NoFleet ==
    /\ finish = None
    /\ wind_maps = <<>>
    /\ dpn_string = <<>>
    /\ handicap = NotParsed

\* The series and the race before anything is loaded into them.
NoSeries ==
    /\ race = NewRace(0, 1, None)
    /\ races = <<>>
    /\ race_order = <<>>
    /\ qualify_count_override = None
    /\ valid_required_skippers = 1
    /\ memo = FreshMemo

\* A loader filling one race: skippers enter in the order of their
\* identifiers (the next new skipper is Len + 1); a skipper already entered
\* may be offered again, which raises and changes nothing.
AddSkipperFinish ==
    /\ Len(race.race_times) < MaxFinishes
    /\ \E s \in 1 .. (Len(race.race_times) + 1) :
         \E f \in FinishesOf(s) :
            race' = add_skipper_finish(race, f).race
    /\ UNCHANGED <<races, race_order, qualify_count_override, valid_required_skippers, memo>>
    /\ UNCHANGED fleet_vars

InitRace ==
    /\ \E q \in RequiredValues, w \in WindValues :
          /\ race = NewRace(1, q, w)
          /\ valid_required_skippers = q
    /\ races = <<>>
    /\ race_order = <<>>
    /\ qualify_count_override = None
    /\ memo = FreshMemo
    /\ NoFleet

NextRace == AddSkipperFinish

SpecRace == InitRace /\ [][NextRace]_vars

\* The race sheets offered to the loader of a series: the wind of the race
\* and its entries in the order of the sheet.  Skippers 1 and 3 sail "SF",
\* skipper 2 sails "LS", so 60 s for 1 or 3 and 120 s for 2 correct to the
\* same time.  Every race of the series requires SeriesRequired starters,
\* so the fourth sheet is an invalid race with its wind recorded and the
\* last one an invalid race without.
SeriesRequired == {2}
RaceSheets ==
    { [wind_bf |-> 2,
       entries |-> <<RaceFinishTime(1, 60), RaceFinishTime(2, 60), RaceFinishTime(3, 120)>>],
      [wind_bf |-> 2,
       entries |-> <<RaceFinishTime(2, 120), RaceFinishTime(1, 60), RaceFinishDNF(3)>>],
      [wind_bf |-> 2,
       entries |-> <<RaceFinishRC(1), RaceFinishTime(2, 60), RaceFinishTime(3, 60)>>],
      [wind_bf |-> 2,
       entries |-> <<RaceFinishRC(1), RaceFinishTime(2, 60)>>],
      [wind_bf |-> 4,
       entries |-> <<RaceFinishTime(3, 60), RaceFinishFIP(2, 3), RaceFinishDQ(1)>>],
      [wind_bf |-> None,
       entries |-> <<RaceFinishRC(3), RaceFinishTime(1, 60)>>] }

\* Series.add_race on a series with races rs, race_order order and
\* memoisation fields m: a name already in race_order raises ValueError
\* (ok is FALSE) before anything is stored; otherwise the race is stored and
\* Series.reset clears every memoisation field.
add_race(m, rs, order, r) ==
    IF r.name \in DOMAIN order
    THEN [ok |-> FALSE, races |-> rs, race_order |-> order, m |-> m]
    ELSE [ok |-> TRUE,
          races |-> Append(rs, r),
          race_order |-> [n \in DOMAIN order \cup {r.name} |->
                            IF n = r.name THEN Len(rs) ELSE order[n]],
          m |-> FreshMemo]

\* Series.add_race of a race loaded from a sheet (db.py builds each Race
\* with the series' valid_required_skippers); the name offered may be one
\* the series already holds.
AddRaceFrom(sheets) ==
    /\ Len(races) < MaxRaces
    /\ \E name \in 1 .. (Len(races) + 1), sheet \in sheets :
         LET r == LoadRace(NewRace(name, valid_required_skippers, sheet.wind_bf),
                           sheet.entries)
             added == add_race(memo, races, race_order, r)
         IN  /\ races' = added.races
             /\ race_order' = added.race_order
             /\ memo' = added.m
    /\ UNCHANGED <<race, qualify_count_override, valid_required_skippers>>
    /\ UNCHANGED fleet_vars

AddRace == AddRaceFrom(RaceSheets)

Init ==
    /\ race = NewRace(0, 1, None)
    /\ races = <<>>
    /\ race_order = <<>>
    /\ qualify_count_override \in OverrideValues
    /\ valid_required_skippers \in SeriesRequired
    /\ memo = FreshMemo
    /\ NoFleet

Next == AddRace

Spec == Init /\ [][Next]_vars

\* The race sheets of a series whose standings need every tie-break.  With
\* wind 2, skipper 2 ("LS") corrects 60 s to 30 and 180 s to 90, skippers 1
\* and 3 ("SF") keep their times: 2 beats 1 in the first sheet, 1 beats 3 in
\* the second, 3 beats 2 in the third, each winner scoring 1 and each loser
\* 2.  In the fourth, skipper 1 is RC, 2 scores 1 and 3 finishes in place 3.
StandingsSheets ==
    { [wind_bf |-> 2,
       entries |-> <<RaceFinishTime(2, 60), RaceFinishTime(1, 60)>>],
      [wind_bf |-> 2,
       entries |-> <<RaceFinishTime(1, 60), RaceFinishTime(3, 120)>>],
      [wind_bf |-> 2,
       entries |-> <<RaceFinishTime(3, 60), RaceFinishTime(2, 180)>>],
      [wind_bf |-> 2,
       entries |-> <<RaceFinishRC(1), RaceFinishTime(2, 60), RaceFinishFIP(3, 3)>>] }

AddStandingsRace == AddRaceFrom(StandingsSheets)

NextStandings == AddStandingsRace

SpecStandings == Init /\ [][NextStandings]_vars

\* The queries of a series.  What a query leaves in the memoisation fields
\* does not depend on the skipper asked about.
Asked == {1, 2, 3}

GetAllSkippers ==
    /\ memo' = call_get_all_skippers(memo, races).m
    /\ UNCHANGED <<race, races, race_order, qualify_count_override, valid_required_skippers>>
    /\ UNCHANGED fleet_vars

GetSkipperRcPoints ==
    /\ \E skipper \in Asked :
          memo' = call_get_skipper_rc_points(memo, races, skipper).m
    /\ UNCHANGED <<race, races, race_order, qualify_count_override, valid_required_skippers>>
    /\ UNCHANGED fleet_vars

SkipperPointsList ==
    /\ \E skipper \in Asked :
          memo' = call_skipper_points_list(memo, races, qualify_count_override, skipper).m
    /\ UNCHANGED <<race, races, race_order, qualify_count_override, valid_required_skippers>>
    /\ UNCHANGED fleet_vars

GetSkipperRank ==
    /\ \E skipper \in Asked :
          memo' = call_get_skipper_rank(memo, races, qualify_count_override, skipper).m
    /\ UNCHANGED <<race, races, race_order, qualify_count_override, valid_required_skippers>>
    /\ UNCHANGED fleet_vars

\* The race sheets of a series that is queried while it is loaded: two
\* skippers tied on corrected time, a race with an RC skipper, and an
\* invalid race without its wind, whose results cannot be computed.
CacheSheets ==
    { [wind_bf |-> 2,
       entries |-> <<RaceFinishTime(1, 60), RaceFinishTime(2, 120)>>],
      [wind_bf |-> 2,
       entries |-> <<RaceFinishRC(1), RaceFinishTime(2, 60), RaceFinishFIP(3, 3)>>],
      [wind_bf |-> None,
       entries |-> <<RaceFinishRC(3), RaceFinishTime(1, 60)>>] }

AddCacheRace == AddRaceFrom(CacheSheets)

NextCache ==
    \/ AddCacheRace
    \/ GetAllSkippers
    \/ GetSkipperRcPoints
    \/ SkipperPointsList
    \/ GetSkipperRank

SpecCache == Init /\ [][NextCache]_vars

\* The race sheets of a series whose races are completed after they were
\* added, and the finishes entered late: skipper 3 is new to the first
\* sheet, skipper 1 is in both already.
FinishSheets ==
    { [wind_bf |-> 2,
       entries |-> <<RaceFinishTime(1, 60), RaceFinishTime(2, 120)>>],
      [wind_bf |-> 2,
       entries |-> <<RaceFinishRC(1), RaceFinishTime(2, 60), RaceFinishFIP(3, 3)>>] }

LateFinishes == {RaceFinishTime(3, 60), RaceFinishTime(1, 60)}

AddFinishRace == AddRaceFrom(FinishSheets)

\* Race.add_skipper_finish on a race of the series: the finish is stored
\* and Race.reset runs, which touches nothing of the Series; a duplicate
\* raises and changes nothing.
AddFinishInSeries ==
    /\ \E i \in 1 .. Len(races), f \in LateFinishes :
          /\ Len(races[i].race_times) < MaxFinishes
          /\ races' = [races EXCEPT ![i] = add_skipper_finish(races[i], f).race]
    /\ UNCHANGED <<race, race_order, qualify_count_override, valid_required_skippers, memo>>
    /\ UNCHANGED fleet_vars

NextFinish ==
    \/ AddFinishRace
    \/ GetAllSkippers
    \/ GetSkipperRcPoints
    \/ SkipperPointsList
    \/ GetSkipperRank
    \/ AddFinishInSeries

SpecFinish == Init /\ [][NextFinish]_vars

\* ------------------------------------------------------ fleet specs ---
\* The values a handicap of the boat table may have, and the boat types
\* they make: DPN0 is there, each of DPN1 .. DPN4 may be missing.
HandicapValues == {80, 100, 200}
Slot == HandicapValues \cup {None}
BoatTypes ==
    {BoatType("B", <<d0, d1, d2, d3, d4>>) :
        d0 \in HandicapValues, d1 \in Slot, d2 \in Slot, d3 \in Slot, d4 \in Slot}

\* Beaufort numbers of a race, and the wind_bf a finish may be given.
BeaufortValues == {0, 1, 2, 3, 4, 5}
\* The longest input_time_s, and the offsets a race may have.
MaxInputTime == 4
OffsetValues == {0, 1}

\* A RaceFinishTime as the loader builds it; the finish is not recorded
\* before the start, so input_time_s is at least offset_time_s.
InitTime ==
    /\ NoSeries
    /\ \E boat \in BoatTypes, wind_bf \in BeaufortValues \cup {None},
          input_time_s \in 0 .. MaxInputTime, offset_time_s \in OffsetValues :
          /\ offset_time_s <= input_time_s
          /\ finish = NewRaceFinishTime(boat, wind_bf, input_time_s, offset_time_s)
    /\ wind_maps = <<>>
    /\ dpn_string = <<>>
    /\ handicap = NotParsed

\* A read of the property corrected_time_s.
CorrectedTimeS ==
    /\ finish' = call_corrected_time_s(finish).finish
    /\ UNCHANGED <<wind_maps, dpn_string, handicap>>
    /\ UNCHANGED series_vars

\* RaceFinishTime.reset
ResetFinish ==
    /\ finish' = reset_finish(finish)
    /\ UNCHANGED <<wind_maps, dpn_string, handicap>>
    /\ UNCHANGED series_vars

NextTime == CorrectedTimeS \/ ResetFinish

SpecTime == InitTime /\ [][NextTime]_vars

\* The longest list of ranges a wind map is given, and the index values.
MaxWindMaps == 3
IndexValues == {1, 2}

InitWind ==
    /\ NoSeries
    /\ NoFleet

\* WindMap.add_wind_parameters, as the loader calls it for each map value;
\* a call that raises changes nothing.
AddWindParameters ==
    /\ Len(wind_maps) < MaxWindMaps
    /\ \E start_wind \in BeaufortValues, end_wind \in BeaufortValues, index \in IndexValues :
          wind_maps' = add_wind_parameters(wind_maps, start_wind, end_wind, index).wind_maps
    /\ UNCHANGED <<finish, dpn_string, handicap>>
    /\ UNCHANGED series_vars

NextWind == AddWindParameters

SpecWind == InitWind /\ [][NextWind]_vars

\* The handicap strings of a table cell: a numeral of up to MaxNumeral
\* characters out of NumeralChars, alone or between an opening and a
\* closing character, the two of one kind or not.
MaxNumeral == 6
NumeralChars == {"0", "1", "9", "."}
RECURSIVE Numerals(_)
Numerals(n) ==
    IF n = 0 THEN {<<>>}
    ELSE LET shorter == Numerals(n - 1)
         IN  shorter \cup {Append(str_, c) : str_ \in shorter, c \in NumeralChars}
Opening == {<<>>, <<"(">>, <<"[">>}
Closing == {<<>>, <<")">>, <<"]">>}
HandicapStrings == {o \o n \o c : o \in Opening, n \in Numerals(MaxNumeral), c \in Closing}

InitHandicap ==
    /\ NoSeries
    /\ finish = None
    /\ wind_maps = <<>>
    /\ dpn_string \in HandicapStrings
    /\ handicap = NotParsed

\* HandicapNumber.from_string on the string of the cell.
FromString ==
    /\ ~handicap.called
    /\ LET h == from_string(dpn_string)
       IN  handicap' = [called |-> TRUE, ok |-> h.ok, val |-> h.val]
    /\ UNCHANGED <<finish, wind_maps, dpn_string>>
    /\ UNCHANGED series_vars

NextHandicap == FromString

SpecHandicap == InitHandicap /\ [][NextHandicap]_vars

\* ------------------------------------------------- claims on one race ---
TimeSkippers(r) == {s \in SkippersIn(r) : IsTime(FinishOf(r, s))}
CtOf(r, s) == corrected_time_s(FinishOf(r, s), r.wind_bf).val
\* Number of entries of the race that are not RC entries.
Starters(r) == Cardinality({s \in SkippersIn(r) : ~IsRC(FinishOf(r, s))})
\* The race without the finish of skipper s.
WithoutSkipper(r, s) ==
    LET NotS(rt) == rt.skipper # s
    IN  [r EXCEPT !.race_times = SelectSeq(@, NotS)]

\* C1: a Time finisher in a tie of n boats whose group starts at place p
\* (p - 1 boats have a smaller corrected time) scores (p + ... + p+n-1) / n,
\* that is p + (n - 1) / 2 points.
C1_TieSplit ==
    LET res == race_results(race)
        T == TimeSkippers(race)
    IN  res.ok =>
          \A s \in T :
            LET p == 1 + Cardinality({x \in T : CtOf(race, x) < CtOf(race, s)})
                n == Cardinality({x \in T : CtOf(race, x) = CtOf(race, s)})
            IN  res.pts[s] = 5 * (2 * p + n - 1)

\* A two-way tie for places 2 and 3 scoring 2.5 each, behind a single winner.
C1_Witness ==
    LET res == race_results(race)
    IN  /\ res.ok
        /\ \E a, b, c \in TimeSkippers(race) :
              /\ a # b
              /\ CtOf(race, c) < CtOf(race, a)
              /\ CtOf(race, a) = CtOf(race, b)
              /\ res.pts[c] = 10
              /\ res.pts[a] = 25
              /\ res.pts[b] = 25

\* C2: every DNF finish scores the number of entries that are not RC.
C2_DnfIsStarterCount ==
    LET res == race_results(race)
    IN  res.ok =>
          \A s \in SkippersIn(race) :
            IsDNF(FinishOf(race, s)) => res.pts[s] = 10 * Starters(race)

\* C3: every DQ finish scores the number of entries that are not RC, plus 2.
C3_DqIsStarterCountPlus2 ==
    LET res == race_results(race)
    IN  res.ok =>
          \A s \in SkippersIn(race) :
            FinishOf(race, s).kind = "DQ" => res.pts[s] = 10 * (Starters(race) + 2)

\* C4: a FIP finish scores its declared place, and the Time finishers score
\* the same with the FIP finish in the race as without it.
C4_FipIndependent ==
    LET res == race_results(race)
    IN  res.ok =>
          \A s \in SkippersIn(race) :
            IsFIP(FinishOf(race, s)) =>
                LET without == race_results(WithoutSkipper(race, s))
                IN  /\ res.pts[s] = 10 * FinishOf(race, s).place
                    /\ \A t \in TimeSkippers(race) : without.pts[t] = res.pts[t]

\* A FIP finish declaring place 1 next to two Time finishers, one of which
\* also scores 1.
C4_Witness ==
    LET res == race_results(race)
    IN  /\ res.ok
        /\ \E s, t, u \in SkippersIn(race) :
              /\ IsFIP(FinishOf(race, s)) /\ FinishOf(race, s).place = 1
              /\ t # u /\ IsTime(FinishOf(race, t)) /\ IsTime(FinishOf(race, u))
              /\ res.pts[s] = 10
              /\ res.pts[t] = 10
              /\ res.pts[u] = 20

\* C5: valid() is true exactly when the wind is recorded and the entries
\* that are not RC (all entries less the RC entries) number at least
\* required_skippers.
C5_ValidIff ==
    valid(race) <=>
        /\ race.wind_bf # None
        /\ Len(race.race_times) - Len(rc_skippers(race)) >= race.required_skippers

\* A valid race whose two starters are a DNF and a DQ, with an RC entry
\* that is not counted.
C5_Witness ==
    /\ valid(race)
    /\ race.required_skippers = 2
    /\ Len(race.race_times) = 3
    /\ \E a, b, c \in SkippersIn(race) :
          /\ IsDNF(FinishOf(race, a))
          /\ FinishOf(race, b).kind = "DQ"
          /\ IsRC(FinishOf(race, c))

\* ----------------------------------------------- claims on the series ---
\* The skippers of the race sheets.
SeriesSkippers == {1, 2, 3}
RaceIdx == 1 .. Len(races)
\* Kind of the finish of skipper s in race i, "none" when s has no entry.
KindIn(i, s) == IF s \in SkippersIn(races[i]) THEN FinishOf(races[i], s).kind ELSE "none"
\* Races counted for qualification: finished (Time or FIP), RC capped at
\* two, DNF.
Counted(s) ==
    Cardinality({i \in RaceIdx : KindIn(i, s) \in {"Time", "FIP"}})
    + Min(2, Cardinality({i \in RaceIdx : KindIn(i, s) = "RC"}))
    + Cardinality({i \in RaceIdx : KindIn(i, s) = "DNF"})

\* C6: qualify_count is the override when one is given, otherwise the
\* least integer q with 2 * q >= v, v the number of valid races now in the
\* series.
C6_QualifyCount ==
    LET v == Cardinality({i \in RaceIdx : valid(races[i])})
        q == qualify_count(races, qualify_count_override)
    IN  IF qualify_count_override # None
        THEN q = qualify_count_override
        ELSE 2 * q >= v /\ 2 * (q - 1) < v

\* No override, three valid races out of four: qualify_count is 2.
C6_Witness ==
    /\ qualify_count_override = None
    /\ Len(races) = 4
    /\ Cardinality({i \in RaceIdx : valid(races[i])}) = 3
    /\ qualify_count(races, qualify_count_override) = 2

\* C7: a skipper qualifies exactly when finished races (RC excluded) plus
\* min(2, RC races) plus DNF races reach qualify_count.
C7_QualifiesIff ==
    \A s \in SeriesSkippers :
        skipper_qualifies(races, qualify_count_override, s)
            <=> Counted(s) >= qualify_count(races, qualify_count_override)

\* One skipper qualifies with exactly qualify_count counted races, two of
\* them from three RC duties, while another with one fewer does not.
C7_Witness ==
    \E s, t \in SeriesSkippers :
        /\ Cardinality({i \in RaceIdx : KindIn(i, s) = "RC"}) >= 3
        /\ Counted(s) = qualify_count(races, qualify_count_override)
        /\ skipper_qualifies(races, qualify_count_override, s)
        /\ Counted(t) = qualify_count(races, qualify_count_override) - 1
        /\ ~skipper_qualifies(races, qualify_count_override, t)

\* The scores of skipper s that the RC credit is computed from, as the set
\* of <<race index, score>>: the entries of s, other than None, in the
\* results of the valid races.
RcScores(s) ==
    {<<i, race_results(races[i]).pts[s]>> :
        i \in {j \in RaceIdx : /\ valid(races[j])
                               /\ s \in DOMAIN race_results(races[j]).pts
                               /\ race_results(races[j]).pts[s] # None}}
RECURSIVE SumPairs(_)
SumPairs(S) ==
    IF S = {} THEN 0
    ELSE LET x == CHOOSE y \in S : TRUE IN x[2] + SumPairs(S \ {x})

\* C8: with no score the RC credit is None; otherwise it is the average of
\* the scores, the single highest left out when there are two or more,
\* rounded to a whole number of tenths (at most half a tenth away).
C8_RcCredit ==
    \A s \in SeriesSkippers :
        LET S == RcScores(s)
            n == Cardinality(S)
            k == IF n > 1 THEN n - 1 ELSE n
            total == IF n > 1 THEN SumPairs(S) - MaxOf({x[2] : x \in S}) ELSE SumPairs(S)
            c == get_skipper_rc_points(races, s)
        IN  IF n = 0 THEN c = None
            ELSE /\ c # None
                 /\ 2 * (c * k - total) <= k
                 /\ 2 * (total - c * k) <= k

\* Scores 1.0, 2.0 and 3.0 give the credit 1.5 (not 2.0), and another
\* skipper with a single score has that score as credit.
C8_Witness ==
    \E s, t \in SeriesSkippers :
        /\ {x[2] : x \in RcScores(s)} = {10, 20, 30}
        /\ Cardinality(RcScores(s)) = 3
        /\ get_skipper_rc_points(races, s) = 15
        /\ Cardinality(RcScores(t)) = 1
        /\ \E x \in RcScores(t) : get_skipper_rc_points(races, t) = x[2]

\* The scores of s in the valid races s actually finished (a Time or a FIP
\* finish).
FinishedScores(s) ==
    {x \in RcScores(s) : KindIn(x[1], s) \in {"Time", "FIP"}}

\* C9: the RC credit is computed from the scores of the valid races the
\* skipper finished and from nothing else: it is the credit of those scores.
C9_OnlyFinishedScores ==
    \A s \in SeriesSkippers :
        LET S == FinishedScores(s)
            n == Cardinality(S)
            k == IF n > 1 THEN n - 1 ELSE n
            total == IF n > 1 THEN SumPairs(S) - MaxOf({x[2] : x \in S}) ELSE SumPairs(S)
            c == get_skipper_rc_points(races, s)
        IN  IF n = 0 THEN c = None
            ELSE /\ c # None
                 /\ 2 * (c * k - total) <= k
                 /\ 2 * (total - c * k) <= k

\* C10: for a qualifying skipper whose point collection returns, the
\* substituted RC credits number min(2, RC races) (none when the skipper
\* has no RC credit), never more than 2, and each is the skipper's RC
\* credit.
C10_RcCap ==
    \A s \in SeriesSkippers :
        LET walk == points_walk(races, races, s, 0)
            subs == SelectSeq(walk.list, LAMBDA e : e.from_rc)
            nrc  == Cardinality({i \in RaceIdx : KindIn(i, s) = "RC"})
            c    == get_skipper_rc_points(races, s)
        IN  (skipper_qualifies(races, qualify_count_override, s) /\ walk.ok) =>
               /\ Len(subs) <= 2
               /\ Len(subs) = (IF c = None THEN 0 ELSE Min(2, nrc))
               /\ \A i \in 1 .. Len(subs) : subs[i].value = c

\* A qualifying skipper with three RC duties and an RC credit gets exactly
\* two credits substituted.
C10_Witness ==
    \E s \in SeriesSkippers :
        LET walk == points_walk(races, races, s, 0)
            subs == SelectSeq(walk.list, LAMBDA e : e.from_rc)
        IN  /\ skipper_qualifies(races, qualify_count_override, s)
            /\ walk.ok
            /\ Cardinality({i \in RaceIdx : KindIn(i, s) = "RC"}) >= 3
            /\ get_skipper_rc_points(races, s) # None
            /\ Len(subs) = 2

\* --------------------------------------------- claims on the standings ---
\* Number of positions of the sequence q that hold the value v.
CountIn(q, v) == Cardinality({i \in 1 .. Len(q) : q[i] = v})

\* C11: for every skipper with a points list, points_scored followed by
\* points_excluded is the collected values in ascending order (so no
\* excluded value is lower than a scored one), points_scored has the first
\* qualify_count of them (all when there are fewer), and the total score is
\* the sum of points_scored to one decimal.
C11_PointsSplit ==
    \A s \in SeriesSkippers :
        LET res == skipper_points_list(races, qualify_count_override, s)
            sl  == res.val
            all == sl.points_scored \o sl.points_excluded
            walk == points_walk(races, races, s, 0).list
            collected == [i \in 1 .. Len(walk) |-> walk[i].value]
        IN  (res.ok /\ sl.present) =>
              /\ \A i, j \in 1 .. Len(all) : i < j => all[i] <= all[j]
              /\ Len(all) = Len(collected)
              /\ \A i \in 1 .. Len(collected) :
                    CountIn(all, collected[i]) = CountIn(collected, collected[i])
              /\ Len(sl.points_scored)
                    = Min(qualify_count(races, qualify_count_override), Len(all))
              /\ score(sl) = SumSeq(sl.points_scored)

\* A skipper whose values were collected out of order (3.0, 2.5, 2.0, 1.0 or
\* the like), with two scored and at least one excluded value higher than
\* both.
C11_Witness ==
    \E s \in SeriesSkippers :
        LET res == skipper_points_list(races, qualify_count_override, s)
            sl  == res.val
            walk == points_walk(races, races, s, 0).list
        IN  /\ res.ok /\ sl.present
            /\ Len(sl.points_scored) = 2
            /\ Len(sl.points_excluded) >= 1
            /\ sl.points_excluded[1] > sl.points_scored[2]
            /\ walk[1].value > walk[Len(walk)].value
            /\ score(sl) = sl.points_scored[1] + sl.points_scored[2]

\* A skipper is in the series when some race has an entry for it.
InSeries(s) == \E i \in RaceIdx : s \in SkippersIn(races[i])

\* C12: for a skipper that is not in the series or does not qualify,
\* skipper_points_list and get_skipper_rank both return without raising and
\* both return the absent result.
C12_AbsentForNonQualifiers ==
    \A s \in SeriesSkippers :
        (~InSeries(s) \/ ~skipper_qualifies(races, qualify_count_override, s)) =>
            /\ skipper_points_list(races, qualify_count_override, s)
                   = [ok |-> TRUE, val |-> NoScoreList]
            /\ get_skipper_rank(races, qualify_count_override, s)
                   = [ok |-> TRUE, val |-> NoRank]

\* s has a score, other than None, in the results of a valid race.
HasValidScore(s) ==
    \E i \in RaceIdx :
        /\ valid(races[i])
        /\ s \in DOMAIN race_results(races[i]).pts
        /\ race_results(races[i]).pts[s] # None

\* C13 as stated: get_skipper_rc_points returns None for every skipper that
\* is not in the series or does not qualify.
C13_NoneForNonQualifiers ==
    \A s \in SeriesSkippers :
        (~InSeries(s) \/ ~skipper_qualifies(races, qualify_count_override, s)) =>
            get_skipper_rc_points(races, s) = None

\* C13 amended: get_skipper_rc_points returns None for a skipper that is
\* not in the series, and for a skipper in the series it returns a value
\* exactly when the skipper has a score in a valid race, qualifying or not.
C13_NoneWithoutScore ==
    \A s \in SeriesSkippers :
        /\ ~InSeries(s) => get_skipper_rc_points(races, s) = None
        /\ get_skipper_rc_points(races, s) # None <=> HasValidScore(s)

\* A skipper that does not qualify has an RC credit, and one that is not in
\* the series has none.
C13_Witness ==
    \E s, u \in SeriesSkippers :
        /\ InSeries(s)
        /\ ~skipper_qualifies(races, qualify_count_override, s)
        /\ get_skipper_rc_points(races, s) # None
        /\ ~InSeries(u) /\ get_skipper_rc_points(races, u) = None

\* Position of skipper s in the list q.
PosIn(q, s) == CHOOSE i \in 1 .. Len(q) : q[i] = s
\* The points list of every skipper, by identifier.
AllPoints == [s \in SeriesSkippers |-> ScoreListOf(races, qualify_count_override, s)] \o <<>>

\* C14: of two listed skippers with a points list, the one with the lower
\* total is earlier; with equal totals, the one with the lower value at
\* the first position where their points_scored differ is earlier.
C14_TotalThenPoints ==
    LET st == get_all_skippers_sorted(races, qualify_count_override)
        pts == AllPoints
        Scored == {st.list[i] : i \in {k \in 1 .. Len(st.list) : pts[st.list[k]].present}}
    IN  st.ok =>
          \A a, b \in Scored :
            LET ap == pts[a].points_scored
                bp == pts[b].points_scored
                differ == {i \in 1 .. Min(Len(ap), Len(bp)) : ap[i] # bp[i]}
            IN  /\ score(pts[a]) < score(pts[b]) => PosIn(st.list, a) < PosIn(st.list, b)
                /\ (/\ score(pts[a]) = score(pts[b])
                    /\ differ # {}
                    /\ \E i \in differ : /\ \A m \in differ : i <= m
                                          /\ ap[i] < bp[i])
                   => PosIn(st.list, a) < PosIn(st.list, b)

\* Two skippers with the same total and different points_scored, the one
\* with the lower value at the first differing position (the second) ahead
\* although it has the higher identifier.
C14_Witness ==
    LET st == get_all_skippers_sorted(races, qualify_count_override)
        pts == AllPoints
    IN  /\ st.ok
        /\ \E a, b \in {st.list[i] : i \in 1 .. Len(st.list)} :
              /\ pts[a].present /\ pts[b].present
              /\ score(pts[a]) = score(pts[b])
              /\ Len(pts[a].points_scored) >= 2 /\ Len(pts[b].points_scored) >= 2
              /\ pts[a].points_scored[1] = pts[b].points_scored[1]
              /\ pts[a].points_scored[2] < pts[b].points_scored[2]
              /\ a > b
              /\ PosIn(st.list, a) < PosIn(st.list, b)

\* The placement score of skipper s in race i, None when s has none.
PlacementIn(i, s) ==
    LET res == race_results(races[i])
    IN  IF res.ok /\ s \in DOMAIN res.pts THEN res.pts[s] ELSE None
\* The races in which a and b both have a placement score and the scores
\* differ.
DifferIn(a, b) ==
    {i \in RaceIdx : /\ PlacementIn(i, a) # None
                      /\ PlacementIn(i, b) # None
                      /\ PlacementIn(i, a) # PlacementIn(i, b)}
\* a has the lower placement score in the most recent race of DifferIn.
LowerInLatest(a, b) ==
    /\ DifferIn(a, b) # {}
    /\ LET i == CHOOSE k \in DifferIn(a, b) : \A m \in DifferIn(a, b) : k >= m
       IN  PlacementIn(i, a) < PlacementIn(i, b)
\* a and b both have a points list, with equal totals and identical
\* points_scored.
FullyTied(pts, a, b) ==
    /\ a # b
    /\ pts[a].present /\ pts[b].present
    /\ score(pts[a]) = score(pts[b])
    /\ pts[a].points_scored = pts[b].points_scored

\* C15 as stated: of every two listed skippers with equal totals and
\* identical points_scored, the one with the lower placement score in the
\* most recent race where both have one and they differ is earlier.
C15_LatestRaceEveryPair ==
    LET st == get_all_skippers_sorted(races, qualify_count_override)
        pts == AllPoints
        listed == {st.list[i] : i \in 1 .. Len(st.list)}
    IN  st.ok =>
          \A a, b \in listed :
            (FullyTied(pts, a, b) /\ LowerInLatest(a, b))
                => PosIn(st.list, a) < PosIn(st.list, b)

\* C15 amended: the same, for every two such skippers that are next to each
\* other in the list.
C15_LatestRaceAdjacent ==
    LET st == get_all_skippers_sorted(races, qualify_count_override)
        pts == AllPoints
    IN  st.ok =>
          \A i \in 1 .. (Len(st.list) - 1) :
            LET a == st.list[i]
                b == st.list[i + 1]
            IN  FullyTied(pts, a, b) => ~LowerInLatest(b, a)

\* Two fully tied skippers next to each other, the first having the higher
\* identifier and the higher score in an earlier race, and the lower score
\* in the latest race they both scored in.
C15_Witness ==
    LET st == get_all_skippers_sorted(races, qualify_count_override)
        pts == AllPoints
    IN  /\ st.ok
        /\ \E i \in 1 .. (Len(st.list) - 1) :
              LET a == st.list[i]
                  b == st.list[i + 1]
              IN  /\ FullyTied(pts, a, b)
                  /\ a > b
                  /\ LowerInLatest(a, b)
                  /\ \E k \in DifferIn(a, b) : PlacementIn(k, b) < PlacementIn(k, a)

\* The RC credit of every skipper, by identifier.
AllRcPoints == [s \in SeriesSkippers |-> get_skipper_rc_points(races, s)] \o <<>>
\* a comes before b by RC credit and identifier: a lower credit first, no
\* credit last, the identifier when the credits are equal or both absent.
RcBefore(rc, a, b) ==
    IF rc[a] # None /\ rc[b] # None
    THEN rc[a] < rc[b] \/ (rc[a] = rc[b] /\ a < b)
    ELSE IF rc[a] = None /\ rc[b] = None THEN a < b
    ELSE rc[a] # None

\* C16: every listed skipper with a points list is before every one
\* without, and those without are in the order of RcBefore.
C16_UnscoredLast ==
    LET st == get_all_skippers_sorted(races, qualify_count_override)
        pts == AllPoints
        rc == AllRcPoints
        listed == {st.list[i] : i \in 1 .. Len(st.list)}
    IN  st.ok =>
          \A a, b \in listed :
            /\ (pts[a].present /\ ~pts[b].present)
                  => PosIn(st.list, a) < PosIn(st.list, b)
            /\ (~pts[a].present /\ ~pts[b].present /\ a # b /\ RcBefore(rc, a, b))
                  => PosIn(st.list, a) < PosIn(st.list, b)

\* Three skippers without a points list: the lower RC credit first, the
\* higher second, and the skipper without credit last although its
\* identifier is the lowest.
C16_Witness ==
    LET st == get_all_skippers_sorted(races, qualify_count_override)
        pts == AllPoints
        rc == AllRcPoints
    IN  /\ st.ok
        /\ Len(st.list) = 3
        /\ \A i \in 1 .. 3 : ~pts[st.list[i]].present
        /\ rc[st.list[1]] # None /\ rc[st.list[2]] # None
        /\ rc[st.list[1]] < rc[st.list[2]]
        /\ rc[st.list[3]] = None
        /\ st.list[3] < st.list[1] /\ st.list[3] < st.list[2]

\* C17: in the sorted standings a skipper with a points list has as rank
\* its 1-based position, unless its total equals that of the skipper just
\* before it, whose rank it then takes.
C17_RankSharing ==
    LET st == get_all_skippers_sorted(races, qualify_count_override)
        pts == AllPoints
        d == ranks_dict(races, qualify_count_override)
    IN  st.ok =>
          /\ d.ok
          /\ \A i \in 1 .. Len(st.list) :
                LET s == st.list[i]
                IN  pts[s].present =>
                      /\ rank_of(d.ranks, s).present
                      /\ rank_of(d.ranks, s).rank =
                            IF i > 1 /\ pts[st.list[i - 1]].present
                                     /\ score(pts[st.list[i - 1]]) = score(pts[s])
                            THEN rank_of(d.ranks, st.list[i - 1]).rank
                            ELSE i

\* Two skippers share rank 1 on equal totals and the third, with a higher
\* total, has rank 3.
C17_Witness ==
    LET st == get_all_skippers_sorted(races, qualify_count_override)
        pts == AllPoints
        R(s) == get_skipper_rank(races, qualify_count_override, s).val
    IN  /\ st.ok
        /\ Len(st.list) = 3
        /\ \A i \in 1 .. 3 : pts[st.list[i]].present
        /\ score(pts[st.list[1]]) = score(pts[st.list[2]])
        /\ score(pts[st.list[2]]) < score(pts[st.list[3]])
        /\ R(st.list[1]).rank = 1
        /\ R(st.list[2]).rank = 1
        /\ R(st.list[3]).rank = 3

\* ------------------------------------------------ claims on the memo ---
\* The four queries, called on a series with memoisation fields m and races
\* rs, return what they return on a series with the same races and nothing
\* memoised.
QueriesAgree(m, rs, ov) ==
    /\ call_get_all_skippers(m, rs).val = get_all_skippers(rs)
    /\ \A s \in Asked :
          /\ call_get_skipper_rc_points(m, rs, s).val = get_skipper_rc_points(rs, s)
          /\ LET c == call_skipper_points_list(m, rs, ov, s)
             IN  [ok |-> c.ok, val |-> c.val] = skipper_points_list(rs, ov, s)
          /\ LET c == call_get_skipper_rank(m, rs, ov, s)
             IN  [ok |-> c.ok, val |-> c.val] = get_skipper_rank(rs, ov, s)

\* C18: once Race.add_skipper_finish has stored a finish in a race of the
\* series, the next query of the series returns the values computed from
\* the race's current finishes.
C18_FinishInvalidates ==
    [][(Len(races') = Len(races) /\ races' # races)
         => QueriesAgree(memo', races', qualify_count_override')]_vars

\* C19: after any interleaving of add_race calls and queries,
\* get_all_skippers, get_skipper_rc_points, skipper_points_list and
\* get_skipper_rank each return what a computation without memoised values
\* returns over the current races.
C19_AddRaceInvalidates == QueriesAgree(memo, races, qualify_count_override)

\* C20: add_skipper_finish for a skipper who has a finish in the race, an
\* RC entry included, and add_race for a name the series holds both raise,
\* and leave the finishes, respectively the races and the race order, as
\* they were.
C20_DuplicatesRaise ==
    /\ \A i \in 1 .. Len(races) :
          \A s \in SkippersIn(races[i]) :
             \A f \in FinishesOf(s) :
                LET res == add_skipper_finish(races[i], f)
                IN  ~res.ok /\ res.race = races[i]
    /\ \A name \in DOMAIN race_order :
          \A sheet \in FinishSheets :
             LET r == LoadRace(NewRace(name, valid_required_skippers, sheet.wind_bf),
                               sheet.entries)
                 res == add_race(memo, races, race_order, r)
             IN  /\ ~res.ok
                 /\ res.races = races
                 /\ res.race_order = race_order
                 /\ res.m = memo

\* A series of two races, one of them holding the RC entry of a skipper
\* for whom a timed finish is refused.
C20_Witness ==
    /\ Len(races) >= 2
    /\ \E i \in 1 .. Len(races) :
          \E s \in SkippersIn(races[i]) :
             /\ IsRC(FinishOf(races[i], s))
             /\ ~add_skipper_finish(races[i], RaceFinishTime(s, 60)).ok

\* ------------------------------------------------ claims on the fleet ---
\* The handicap the finish is corrected with.
DpnOf(f) == dpn_for_beaufort(f.boat, f.wind_bf).val

C22_TiesRoundUp ==
    finish.corrected_time_s # None =>
        finish.corrected_time_s
            = (2 * 100 * time_s(finish) + DpnOf(finish)) \div (2 * DpnOf(finish))

C23_HalfUp ==
    \A s \in SeriesSkippers :
        LET S == RcScores(s)
            n == Cardinality(S)
            k == IF n > 1 THEN n - 1 ELSE n
            total == IF n > 1 THEN SumPairs(S) - MaxOf({x[2] : x \in S}) ELSE SumPairs(S)
        IN  n > 0 => get_skipper_rc_points(races, s) = (2 * total + k) \div (2 * k)

\* ------------------------------------------ claims on handicap strings ---
\* The string of the cell without its opening and closing character.
NumeralOf(value) ==
    IF value # <<>> /\ value[1] \in {"(", "["} THEN SubSeq(value, 2, Len(value) - 1)
    ELSE value
\* n is written as a whole part without a leading zero it can do without,
\* a point and three decimals.
ThreeDecimals(n) ==
    /\ Len(n) >= 5
    /\ n[Len(n) - 3] = "."
    /\ \A i \in 1 .. Len(n) : i # Len(n) - 3 => IsDigit(n[i])
    /\ (n[1] = "0" => Len(n) = 5)

\* C24 as stated: every handicap string that from_string takes is given
\* back exactly by formatting the HandicapNumber parsed from it.
C24_RoundTrip ==
    (handicap.called /\ handicap.ok) => str(handicap.val) = dpn_string

\* C24 amended: for every handicap string that from_string takes, the
\* formatted HandicapNumber has the opening and closing character of the
\* string (none, parentheses or square brackets), and it is the string
\* itself exactly when the number is written with three decimals.
C24_ThreeDecimalsRoundTrip ==
    (handicap.called /\ handicap.ok) =>
        LET out == str(handicap.val)
        IN  /\ \A c \in {"(", "["} : (out[1] = c) <=> (dpn_string[1] = c)
            /\ \A c \in {")", "]"} : (out[Len(out)] = c) <=> (dpn_string[Len(dpn_string)] = c)
            /\ (out = dpn_string) <=> ThreeDecimals(NumeralOf(dpn_string))

\* The highly suspect handicap "[10.009]" is parsed and formatted back to
\* the same string.
C24_Witness ==
    /\ dpn_string = <<"[", "1", "0", ".", "0", "0", "9", "]">>
    /\ handicap.called /\ handicap.ok
    /\ handicap.val.handicap_type = "HIGHLY_SUSPECT"
    /\ str(handicap.val) = dpn_string

\* --------------------------------------------- claims on tied skippers ---
\* a and b are tied under every rule of the comparator: both have a points
\* list, with equal totals and identical points_scored, and no race gives
\* both a placement score with the two scores different.
TiedThroughout(pts, a, b) == FullyTied(pts, a, b) /\ DifferIn(a, b) = {}

RangeOf(n) == {bf \in BeaufortValues : n.start_bf <= bf /\ bf <= n.end_bf}

\* C27: add_wind_parameters raises for every range start_wind .. end_wind
\* that shares a Beaufort number with a range of the map, so the ranges of
\* the map are pairwise disjoint and the node get_wind_map_for_beaufort
\* returns is the only one whose range holds the Beaufort number.
C27_DisjointRanges ==
    /\ \A start_wind \in BeaufortValues, end_wind \in BeaufortValues :
          (\E i \in 1 .. Len(wind_maps) :
              RangeOf(Node(start_wind, end_wind, 1).node) \cap RangeOf(wind_maps[i]) # {})
            => ~add_wind_parameters(wind_maps, start_wind, end_wind, 1).ok
    /\ \A i, j \in 1 .. Len(wind_maps) :
          i # j => RangeOf(wind_maps[i]) \cap RangeOf(wind_maps[j]) = {}
    /\ \A bf \in BeaufortValues :
          \A i \in 1 .. Len(wind_maps) :
             bf \in RangeOf(wind_maps[i])
                => get_wind_map_for_beaufort(wind_maps, bf) = wind_maps[i]

\* --------------------------------------- claims on the series queries ---
\* C28: in a series with qualify_count >= 1, skipper_points_list, when it
\* returns, gives every qualifying skipper a ScoreList whose points_scored
\* holds exactly qualify_count values.
C28_ScoredCount ==
    \A s \in SeriesSkippers :
        LET q == qualify_count(races, qualify_count_override)
            res == skipper_points_list(races, qualify_count_override, s)
        IN  (q >= 1 /\ skipper_qualifies(races, qualify_count_override, s) /\ res.ok) =>
                /\ res.val.present
                /\ Len(res.val.points_scored) = q

\* C29: every series query returns normally: skipper_points_list and
\* get_skipper_rank for every skipper, and get_all_skippers_sorted, whatever
\* valid and invalid races the series holds.
C29_QueriesReturn ==
    /\ get_all_skippers_sorted(races, qualify_count_override).ok
    /\ \A s \in SeriesSkippers :
           /\ skipper_points_list(races, qualify_count_override, s).ok
           /\ get_skipper_rank(races, qualify_count_override, s).ok


\* ------------------------------------------ claims on tie splitting ---
\* The scores of the Time finishers of the race, each paired with its skipper.
TimeScores(res) == {<<s, res.pts[s]>> : s \in TimeSkippers(race)}

\* C30: in a race with n Time finishes whose results can be computed, every
\* Time finisher's score is a multiple of 0.5 between 1 and n, and the
\* scores of the n Time finishers sum to n * (n + 1) / 2.
C30_PointsConserved ==
    LET res == race_results(race)
        n == Cardinality(TimeSkippers(race))
    IN  res.ok =>
          /\ \A s \in TimeSkippers(race) :
                /\ res.pts[s] % 5 = 0
                /\ res.pts[s] >= 10
                /\ res.pts[s] <= 10 * n
          /\ SumPairs(TimeScores(res)) = 5 * n * (n + 1)

\* Four Time finishers, the last three tied on corrected time: the winner
\* scores 1 and each of the tied boats 3, 10 points in all.
C30_Witness ==
    LET res == race_results(race)
    IN  /\ res.ok
        /\ Cardinality(TimeSkippers(race)) = 4
        /\ \E w \in TimeSkippers(race) :
              /\ res.pts[w] = 10
              /\ \A s \in TimeSkippers(race) \ {w} :
                    /\ CtOf(race, w) < CtOf(race, s)
                    /\ res.pts[s] = 30

====
